---------------------------- MODULE Spec2Model ----------------------------
(***************************************************************************)
(* Petal Parlour: the browser client of src/js/login.js (authentication)   *)
(* and src/js/post.js (post CRUD, pagination, rendering) as a state        *)
(* machine.                                                                *)
(*                                                                         *)
(* State: the two localStorage entries, window.location.href, the login,   *)
(* register and post forms, the submit listeners of the post form, the     *)
(* posts container, the load-more button, the detail view, the requests    *)
(* in flight, and what the step just taken showed or sent (out).           *)
(*                                                                         *)
(* An async handler is two steps: the synchronous part up to its fetch,    *)
(* and the continuation that runs when the response arrives.  Responses    *)
(* are chosen by the server, so they are inputs of the continuation.       *)
(*                                                                         *)
(* Strings whose characters the code inspects (trim, regular expressions,  *)
(* length) are sequences of one-character strings; all others are opaque.  *)
(*                                                                         *)
(* The application is several documents: login.html hosts the forms that   *)
(* login.js handles, index.html the post form and the list, post.html      *)
(* (where a click on a card leads) the detail view.  An assignment to      *)
(* window.location.href loads the document of the new page, which          *)
(* discards the old page's forms, rendered content and requests in         *)
(* flight; the load is taken as part of the step that navigates.           *)
(* localStorage outlives documents.                                        *)
(***************************************************************************)
EXTENDS Integers, Sequences, FiniteSets, Bags, TLC

VARIABLES
    token,            \* localStorage "jwtToken"
    apiKey,           \* localStorage "apiKey"
    location,         \* window.location.href
    loginForm,        \* #loginEmail, #loginPassword
    registerForm,     \* #registerName, #registerEmail, #registerPassword
    postForm,         \* #title, #image, #location, #text, #postId
    submitText,       \* #submitButton textContent
    listeners,        \* submit listeners of #addPostForm
    postsContainer,   \* children of #postsContainer, in order
    loadMoreDisabled, \* #loadMoreBtn disabled
    postDetails,      \* content of #postDetails
    docTitle,         \* document.title
    currentPage,      \* post.js module variable
    isLastPage,       \* post.js module variable
    pending,          \* bag of requests in flight
    out               \* what the last step did: handler, alerts, request, navigation

vars == << token, apiKey, location, loginForm, registerForm, postForm, submitText,
           listeners, postsContainer, loadMoreDisabled, postDetails, docTitle,
           currentPage, isLastPage, pending, out >>

storageVars == << token, apiKey >>
navVars == << location >>
pageVars == << loginForm, registerForm, postForm, submitText, listeners,
              postsContainer, loadMoreDisabled, postDetails, docTitle >>
authFormVars == << loginForm, registerForm >>
postFormVars == << postForm, submitText, listeners >>
listVars == << postsContainer, loadMoreDisabled >>
detailVars == << postDetails, docTitle >>
cursorVars == << currentPage, isLastPage >>

-----------------------------------------------------------------------------
(* Bounds *)

\* Requests in flight at once.
MaxPending == 2
\* Cards the posts container may hold.
MaxCards == 2
\* The pages a list fetch asks for.
PageNumbers == {1, 2}

-----------------------------------------------------------------------------
(* JavaScript values *)

\* localStorage.getItem of a key that is not stored
None == "<null>"
\* a property that is not there
Undefined == "<undefined>"

\* JavaScript truthiness of a string-or-missing value
Truthy(v) == v \notin {None, Undefined, ""}

Lower == {"a","b","c","d","e","f","g","h","i","j","k","l","m",
          "n","o","p","q","r","s","t","u","v","w","x","y","z"}
Upper == {"A","B","C","D","E","F","G","H","I","J","K","L","M",
          "N","O","P","Q","R","S","T","U","V","W","X","Y","Z"}
Digit == {"0","1","2","3","4","5","6","7","8","9"}
WhiteSpace == {" ", "\t", "\n"}

RECURSIVE TrimStart(_)
TrimStart(s) ==
    IF s # << >> /\ Head(s) \in WhiteSpace THEN TrimStart(Tail(s)) ELSE s

RECURSIVE TrimEnd(_)
TrimEnd(s) ==
    IF s # << >> /\ s[Len(s)] \in WhiteSpace
    THEN TrimEnd(SubSeq(s, 1, Len(s) - 1))
    ELSE s

\* String.prototype.trim
Trim(s) == TrimEnd(TrimStart(s))

-----------------------------------------------------------------------------
(* What a step shows and sends *)

NoRequest == [op |-> "none", url |-> "", method |-> "", page |-> 0]

Request(op, method, url, page) ==
    [op |-> op, url |-> url, method |-> method, page |-> page]

Alert(text, detail) == [text |-> text, detail |-> detail]

NoResponse ==
    [net |-> "none", status |-> 0, tag |-> "", message |-> Undefined, lastPage |-> "",
     nested |-> Undefined, top |-> Undefined]

\* what a continuation was given: whether fetch resolved, the status, the kind of body
\* and the message member of the body
Got(resp) ==
    [net |-> resp.net, status |-> resp.status, tag |-> resp.body.tag,
     message |-> resp.body.message, lastPage |-> "",
     nested |-> Undefined, top |-> Undefined]

\* the same for a response of an auth endpoint, with the access tokens it carried
GotAuth(resp) ==
    [Got(resp) EXCEPT !.nested = IF resp.body.data.present
                                 THEN resp.body.data.accessToken ELSE Undefined,
                      !.top = resp.body.accessToken]

\* the same for a list response whose meta.isLastPage was read
GotList(resp) ==
    [Got(resp) EXCEPT !.lastPage = IF resp.body.meta.isLastPage THEN "yes" ELSE "no"]

\* phase: "call" for a handler's synchronous part, "response" for its continuation
Out(op, phase, alerts, sent, nav) ==
    [op |-> op, phase |-> phase, alerts |-> alerts, sent |-> sent, nav |-> nav,
     got |-> NoResponse]

\* the record of the continuation of loginUser or registerUser
OutOfAuth(resp, op, alerts, sent, nav) ==
    [op |-> op, phase |-> "response", alerts |-> alerts, sent |-> sent, nav |-> nav,
     got |-> GotAuth(resp)]

\* the record of the continuation of fetchPosts that rendered a page
OutOfList(resp, op, alerts, sent, nav) ==
    [op |-> op, phase |-> "response", alerts |-> alerts, sent |-> sent, nav |-> nav,
     got |-> GotList(resp)]

\* the record of a continuation, with the response it was given
OutOf(resp, op, alerts, sent, nav) ==
    [op |-> op, phase |-> "response", alerts |-> alerts, sent |-> sent, nav |-> nav,
     got |-> Got(resp)]

NoNav == "none"

\* the record of the continuation of fetchPosts for the page it had asked for, with
\* the posts the response carried
OutOfPage(resp, page) ==
    [op |-> "fetchPosts", phase |-> "response", alerts |-> << >>, sent |-> NoRequest,
     nav |-> NoNav,
     got |-> GotList(resp) @@ [page |-> page, posts |-> resp.body.data.posts]]

\* the document of login.html, where login.js finds its forms
AuthDocument == location = "login.html"
\* the document of index.html, where post.js finds the post form and the list
AppDocument == location = "index.html"
\* the document of post.html, where post.js finds the detail container
DetailDocument == location = "post.html"

InFlight(req) == BagIn(req, pending)
Send(req) == pending (+) SetToBag({req})
Receive(req) == pending (-) SetToBag({req})
CanSend == BagCardinality(pending) < MaxPending


-----------------------------------------------------------------------------
(* Documents *)

EmptyLoginForm == [email |-> << >>, password |-> << >>]
EmptyRegisterForm == [name |-> << >>, email |-> << >>, password |-> << >>]

EmptyPostForm == [title |-> "", image |-> "", location |-> "", text |-> "", postId |-> ""]


NoDetail ==
    [image |-> "", alt |-> "", location |-> "", date |-> "", reactions |-> "",
     title |-> "", body |-> "", author |-> ""]
NoDocTitle == << "", "" >>

\* window.location.href = target: the document of target loads, with its forms
\* empty, the post form submitting to createPost, nothing rendered or in flight
Navigate(target) ==
    /\ location' = target
    /\ loginForm' = EmptyLoginForm
    /\ registerForm' = EmptyRegisterForm
    /\ postForm' = EmptyPostForm
    /\ submitText' = "Submit"
    /\ listeners' = {"createPost"}
    /\ postsContainer' = << >>
    /\ loadMoreDisabled' = FALSE
    /\ postDetails' = NoDetail
    /\ docTitle' = NoDocTitle
    /\ pending' = EmptyBag

-----------------------------------------------------------------------------
(* HTTP responses *)

\* messages of errors the runtime raises, not the code
NetworkErrorMessage == "Failed to fetch"
JsonParseErrorMessage == "Unexpected token in JSON"
NullPropertyErrorMessage == "Cannot read properties of null"

\* Response.ok
IsOk(resp) == resp.status \in 200..299

Tokens == {"t1", "t2"}
ServerMessages == {"Invalid email or password"}

NoData == [present |-> FALSE, accessToken |-> Undefined]

\* fetch rejected: there is no response
NetworkError(body) == [net |-> "error", status |-> 0, body |-> body]
\* fetch resolved with a response
Response(status, body) == [net |-> "ok", status |-> status, body |-> body]

\* bodies of the auth endpoints: not JSON at all, the value null, or an object with
\* an optional message, an optional data object and optional access tokens
AuthNotJson == [tag |-> "unparsable", message |-> Undefined, data |-> NoData,
                accessToken |-> Undefined]
AuthNull == [tag |-> "null", message |-> Undefined, data |-> NoData,
             accessToken |-> Undefined]
AuthErrorBodies ==
    {AuthNotJson, AuthNull}
    \cup [tag : {"object"}, message : {Undefined, ""} \cup ServerMessages,
          data : {NoData}, accessToken : {Undefined}]
AuthOkBodies ==
    {AuthNotJson, AuthNull}
    \cup [tag : {"object"}, message : {Undefined},
          data : {NoData} \cup [present : {TRUE}, accessToken : {Undefined, ""} \cup Tokens],
          accessToken : {Undefined, ""} \cup Tokens]

\* what the server, or the network, may answer to an auth request
AuthResponses ==
    {NetworkError(AuthNotJson)}
    \cup {Response(404, b) : b \in AuthErrorBodies}
    \cup {Response(200, b) : b \in AuthOkBodies}

Resolved(value) == [kind |-> "resolved", message |-> "", value |-> value]
Rejected(message, value) == [kind |-> "rejected", message |-> message, value |-> value]

\* the promise of response.json()
ParseJson(resp) ==
    IF resp.body.tag = "unparsable"
    THEN Rejected(JsonParseErrorMessage, resp.body)
    ELSE Resolved(resp.body)

\* sendApiRequest: the promise it returns, given the response the server gave
sendApiRequest(resp) ==
    IF resp.net = "error" THEN Rejected(NetworkErrorMessage, resp.body)
    ELSE IF ~IsOk(resp)
    THEN IF ParseJson(resp).kind = "rejected" THEN ParseJson(resp)
         ELSE IF resp.body.tag = "null"
         THEN Rejected(NullPropertyErrorMessage, resp.body)
         ELSE Rejected(IF Truthy(resp.body.message) THEN resp.body.message
                       ELSE "Something went wrong", resp.body)
    ELSE ParseJson(resp)

-----------------------------------------------------------------------------
(* Credential store *)

\* storeToken writing nothing
storeTokenDiscards(t) == token

\* storeToken: the stored token afterwards
storeToken(t) == IF Truthy(t) THEN t ELSE token

\* clearAuthData forgetting the API key
clearAuthDataTokenOnly == token' = None /\ apiKey' = apiKey

\* clearAuthData: both entries removed
clearAuthData == token' = None /\ apiKey' = None

-----------------------------------------------------------------------------
(* Form input *)

Str_noroff_no == << "n","o","r","o","f","f",".","n","o" >>
Str_stud_dot == << "s","t","u","d","." >>

NameInputs ==
    { << >>, << " " >>, << "a","b" >>, << "A","_","1" >>, << " ","a","b"," " >>,
      << "a","-","b" >>, << "b","a","d"," ","n","a","m","e","!" >> }

EmailInputs ==
    { << >>, << " " >>,
      << "a","@" >> \o Str_noroff_no,
      << "a","@" >> \o Str_stud_dot \o Str_noroff_no,
      << "@" >> \o Str_noroff_no,
      << " ","a","@" >> \o Str_noroff_no \o << " " >>,
      << "a","@" >> \o Str_noroff_no \o << "x" >>,
      << "a","@","s","t","u","d","x" >> \o Str_noroff_no,
      << "a","@","x","." >> \o Str_noroff_no,
      << "a" >> \o Str_noroff_no,
      << "a","@","N","O","R","O","F","F",".","n","o" >> }

PasswordInputs ==
    { << >>, << " "," " >>,
      << "p","a","s","s","1","2","3" >>,
      << "p","a","s","s","1","2","3","4" >>,
      << " ","p","a","s","s","1","2","3"," " >>,
      << "p","a","s","s"," ","1","2","3" >>,
      << "p","a","s","s","w","o","r","d","9" >> }

\* the user fills in a field of the login form
TypeLogin(Emails, Passwords) ==
    /\ AuthDocument
    /\ \/ \E e \in Emails : loginForm' = [loginForm EXCEPT !.email = e]
       \/ \E p \in Passwords : loginForm' = [loginForm EXCEPT !.password = p]
    /\ out' = Out("input", "call", << >>, NoRequest, NoNav)
    /\ UNCHANGED << storageVars, navVars, registerForm, postFormVars, listVars,
                    detailVars, cursorVars, pending >>

\* the user fills in a field of the registration form
TypeRegister(Names, Emails, Passwords) ==
    /\ AuthDocument
    /\ \/ \E n \in Names : registerForm' = [registerForm EXCEPT !.name = n]
       \/ \E e \in Emails : registerForm' = [registerForm EXCEPT !.email = e]
       \/ \E p \in Passwords : registerForm' = [registerForm EXCEPT !.password = p]
    /\ out' = Out("input", "call", << >>, NoRequest, NoNav)
    /\ UNCHANGED << storageVars, navVars, loginForm, postFormVars, listVars,
                    detailVars, cursorVars, pending >>

-----------------------------------------------------------------------------
(* registerUser *)

MinPasswordLength == 8

WordChars == Lower \cup Upper \cup Digit \cup {"_"}

\* /^[a-zA-Z0-9_]+$/.test(name)
nameRegexTest(name) ==
    Len(name) >= 1 /\ \A i \in 1..Len(name) : name[i] \in WordChars

\* the email test without its $ anchor
emailRegexTestUnanchored(email) ==
    \E i \in 1..Len(email), j \in 1..Len(email) :
        /\ email[i] = "@"
        /\ LET rest == SubSeq(email, i + 1, j)
           IN  rest = Str_noroff_no \/ rest = Str_stud_dot \o Str_noroff_no

\* /@(stud\.)?noroff\.no$/.test(email)
emailRegexTest(email) ==
    \E i \in 1..Len(email) :
        /\ email[i] = "@"
        /\ LET rest == SubSeq(email, i + 1, Len(email))
           IN  rest = Str_noroff_no \/ rest = Str_stud_dot \o Str_noroff_no

MsgRequired == "All required fields must be filled in."
MsgNameCharset == "The name must only contain letters, numbers, and underscores."
MsgEmailDomain == "Please use a valid Noroff email address."
MsgPasswordLength == "Password must be at least 8 characters long."
Passed == "passed"

\* the validation with the password length tested before the name and the email
registerValidationLengthFirst(name, email, password) ==
    IF name = << >> \/ email = << >> \/ password = << >> THEN MsgRequired
    ELSE IF Len(password) < MinPasswordLength THEN MsgPasswordLength
    ELSE IF ~nameRegexTest(name) THEN MsgNameCharset
    ELSE IF ~emailRegexTest(email) THEN MsgEmailDomain
    ELSE Passed

\* the validation of registerUser on the trimmed fields: the message of the first
\* rule that fails, or Passed
registerValidation(name, email, password) ==
    IF name = << >> \/ email = << >> \/ password = << >> THEN MsgRequired
    ELSE IF ~nameRegexTest(name) THEN MsgNameCharset
    ELSE IF ~emailRegexTest(email) THEN MsgEmailDomain
    ELSE IF Len(password) < MinPasswordLength THEN MsgPasswordLength
    ELSE Passed

RegisterRequest == Request("registerUser", "POST", "/auth/register", 0)

\* registerUser up to its request
RegisterUser ==
    LET verdict == registerValidation(Trim(registerForm.name),
                                      Trim(registerForm.email),
                                      Trim(registerForm.password))
    IN  /\ AuthDocument
        /\ IF verdict # Passed
           THEN /\ out' = Out("registerUser", "call", << Alert(verdict, "") >>,
                              NoRequest, NoNav)
                /\ UNCHANGED pending
           ELSE /\ CanSend
                /\ pending' = Send(RegisterRequest)
                /\ out' = Out("registerUser", "call", << >>, RegisterRequest, NoNav)
        /\ UNCHANGED << storageVars, navVars, authFormVars, postFormVars, listVars,
                        detailVars, cursorVars >>

\* registerUser after its request
RegisterResponse(resp) ==
    /\ AuthDocument
    /\ InFlight(RegisterRequest)
    /\ LET r == sendApiRequest(resp)
       IN  IF r.kind = "resolved"
           THEN \* the form is reset, then the login page loads
                /\ Navigate("login.html")
                /\ out' = OutOfAuth(resp, "registerUser",
                                << Alert("Registration successful! You can now log in.", "") >>,
                                NoRequest, "login.html")
           ELSE /\ pending' = Receive(RegisterRequest)
                /\ out' = OutOfAuth(resp, "registerUser",
                                << Alert("Registration failed: ", r.message) >>,
                                NoRequest, NoNav)
                /\ UNCHANGED << navVars, pageVars >>
    /\ UNCHANGED << storageVars, cursorVars >>

-----------------------------------------------------------------------------
(* loginUser, handleLogout *)

LoginRequest == Request("loginUser", "POST", "/auth/login", 0)

\* the token read from the top level first
loginTokenTopFirst(body) ==
    IF Truthy(body.accessToken) THEN body.accessToken
    ELSE IF body.data.present THEN body.data.accessToken ELSE Undefined

\* responseData.data?.accessToken || responseData.accessToken
loginToken(body) ==
    IF body.data.present /\ Truthy(body.data.accessToken)
    THEN body.data.accessToken
    ELSE body.accessToken

\* if (!token) with the test dropped
tokenMissingNever(t) == FALSE

\* if (!token)
tokenMissing(t) == ~Truthy(t)

\* loginUser up to its request
LoginUser ==
    /\ AuthDocument
    /\ IF Trim(loginForm.email) = << >> \/ Trim(loginForm.password) = << >>
       THEN /\ out' = Out("loginUser", "call",
                          << Alert("Please fill in both email and password.", "") >>,
                          NoRequest, NoNav)
            /\ UNCHANGED pending
       ELSE /\ CanSend
            /\ pending' = Send(LoginRequest)
            /\ out' = Out("loginUser", "call", << >>, LoginRequest, NoNav)
    /\ UNCHANGED << storageVars, navVars, authFormVars, postFormVars, listVars,
                    detailVars, cursorVars >>

\* loginUser after its request
LoginResponse(resp) ==
    /\ AuthDocument
    /\ InFlight(LoginRequest)
    /\ LET r == sendApiRequest(resp)
       IN  IF r.kind = "rejected"
           THEN /\ pending' = Receive(LoginRequest)
                /\ out' = OutOfAuth(resp, "loginUser",
                                << Alert("Login failed: ", r.message) >>, NoRequest, NoNav)
                /\ UNCHANGED << token, navVars, pageVars >>
           ELSE IF r.value.tag = "null"
           THEN /\ pending' = Receive(LoginRequest)
                /\ out' = OutOfAuth(resp, "loginUser",
                                << Alert("Login failed: ", NullPropertyErrorMessage) >>,
                                NoRequest, NoNav)
                /\ UNCHANGED << token, navVars, pageVars >>
           ELSE IF tokenMissing(loginToken(r.value))
           THEN /\ pending' = Receive(LoginRequest)
                /\ out' = OutOfAuth(resp, "loginUser",
                                << Alert("Login failed: No access token returned.", "") >>,
                                NoRequest, NoNav)
                /\ UNCHANGED << token, navVars, pageVars >>
           ELSE /\ token' = storeToken(loginToken(r.value))
                /\ Navigate("index.html")
                /\ out' = OutOfAuth(resp, "loginUser", << >>, NoRequest, "index.html")
    /\ UNCHANGED << apiKey, cursorVars >>

\* handleLogout
HandleLogout ==
    /\ clearAuthData
    /\ Navigate("login.html")
    /\ out' = Out("handleLogout", "call", << >>, NoRequest, "login.html")
    /\ UNCHANGED cursorVars

-----------------------------------------------------------------------------
(* Posts and their rendering *)

\* a post as the API returns it, optional members flattened: media.url, media.alt,
\* author.name and tags[1] are Undefined when the member or its parent is missing
Post(id, title, body, url, alt, author, place, created, reactions) ==
    [id |-> id, title |-> title, body |-> body, mediaUrl |-> url, mediaAlt |-> alt,
     authorName |-> author, tag1 |-> place, created |-> created,
     reactions |-> reactions]

PostDate == "2024-09-29T10:00:00.000Z"

\* new Date(created).toLocaleDateString()
toLocaleDateString(created) ==
    IF created = PostDate THEN "9/29/2024" ELSE "Invalid Date"

\* value || fallback
OrElse(value, fallback) == IF Truthy(value) THEN value ELSE fallback

\* the card with no fallback for a missing author
postCardNoAuthorDefault(post) ==
    [id |-> post.id,
     image |-> OrElse(post.mediaUrl, "/assets/default-image.png"),
     alt |-> OrElse(post.mediaAlt, "Post Image"),
     location |-> OrElse(post.tag1, "Unknown"),
     date |-> toLocaleDateString(post.created),
     reactions |-> IF post.reactions \in {Undefined, "0"} THEN "0" ELSE post.reactions,
     title |-> OrElse(post.title, "Untitled Post"),
     body |-> OrElse(post.body, "No content"),
     author |-> post.authorName]

\* the element displayPosts builds for one post, with the id its click handler uses
postCard(post) ==
    [id |-> post.id,
     image |-> OrElse(post.mediaUrl, "/assets/default-image.png"),
     alt |-> OrElse(post.mediaAlt, "Post Image"),
     location |-> OrElse(post.tag1, "Unknown"),
     date |-> toLocaleDateString(post.created),
     reactions |-> IF post.reactions \in {Undefined, "0"} THEN "0" ELSE post.reactions,
     title |-> OrElse(post.title, "Untitled Post"),
     body |-> OrElse(post.body, "No content"),
     author |-> OrElse(post.authorName, "Anonymous")]

\* the markup displaySinglePost writes, and the document title it sets
postDetail(post) ==
    [image |-> OrElse(post.mediaUrl, "/assets/default-image.png"),
     alt |-> OrElse(post.mediaAlt, "Post Image"),
     location |-> OrElse(post.tag1, "Unknown"),
     date |-> toLocaleDateString(post.created),
     reactions |-> IF post.reactions \in {Undefined, "0"} THEN "0" ELSE post.reactions,
     title |-> OrElse(post.title, "Untitled Post"),
     body |-> OrElse(post.body, "No content"),
     author |-> OrElse(post.authorName, "Anonymous")]

postDocTitle(post) == << OrElse(post.authorName, "Anonymous"), "'s Post" >>

RECURSIVE postCards(_)
\* posts.forEach: one card per post, in order
postCards(posts) ==
    IF posts = << >> THEN << >>
    ELSE << postCard(Head(posts)) >> \o postCards(Tail(posts))

\* displayPosts appending on every page
displayPostsAlwaysAppend(posts, page) == postsContainer \o postCards(posts)

\* displayPosts: the children of the posts container afterwards
displayPosts(posts, page) ==
    (IF page = 1 THEN << >> ELSE postsContainer) \o postCards(posts)

\* displaySinglePost: the detail container and the document title afterwards
displaySinglePost(post) ==
    /\ postDetails' = postDetail(post)
    /\ docTitle' = postDocTitle(post)

\* the record of a direct call of displayPosts or displaySinglePost, with its arguments
OutOfRender(op, posts, page) ==
    [op |-> op, phase |-> "call", alerts |-> << >>, sent |-> NoRequest, nav |-> NoNav,
     got |-> NoResponse, posts |-> posts, page |-> page]

\* a call of displayPosts on the list page
DisplayPosts(posts, page) ==
    /\ AppDocument
    /\ Len(displayPosts(posts, page)) <= MaxCards
    /\ postsContainer' = displayPosts(posts, page)
    /\ out' = OutOfRender("displayPosts", posts, page)
    /\ UNCHANGED << storageVars, navVars, authFormVars, postFormVars, loadMoreDisabled,
                    detailVars, cursorVars, pending >>

\* a call of displaySinglePost on the detail page
DisplaySinglePost(post) ==
    /\ DetailDocument
    /\ displaySinglePost(post)
    /\ out' = OutOfRender("displaySinglePost", << post >>, 0)
    /\ UNCHANGED << storageVars, navVars, authFormVars, postFormVars, listVars,
                    cursorVars, pending >>

\* a click on a card: the listener displayPosts attached to it
ClickCard ==
    /\ AppDocument
    /\ postsContainer # << >>
    /\ Navigate("post.html")
    /\ out' = Out("clickCard", "call", << >>, NoRequest, "post.html")
    /\ UNCHANGED << storageVars, cursorVars >>

\* a post with every member present, and one with every optional member missing
FullPost == Post("1", "Roses", "Red roses", "http://img/1.png", "roses", "kari",
                 "Oslo", PostDate, "3")
BarePost == Post("2", Undefined, Undefined, Undefined, Undefined, Undefined,
                 Undefined, Undefined, Undefined)
PlainPosts == {FullPost, BarePost}

\* posts in which each of media.url, author.name, body and tags[1] is present,
\* missing (Undefined) or empty ("")
SparsePosts ==
    UNION { { Post("3", "Tulips", b, u, "tulips", a, l, PostDate, "0") :
                b \in {"Yellow tulips", m}, u \in {"http://img/3.png", m},
                a \in {"ola", m}, l \in {"Bergen", m} } : m \in {Undefined, ""} }

\* lists of posts: none or one of the posts, and those with two of them
ShortPages(Posts) == {<< >>} \cup {<< p >> : p \in Posts}
FeedPages(Posts) == ShortPages(Posts) \cup {<< p, q >> : p \in Posts, q \in Posts}

-----------------------------------------------------------------------------
(* The post form *)

\* config.js: the stored token and API key, or None
getToken == token
getApiKey == apiKey

\* what an input's value becomes when a script assigns v to it
DomString(v) == IF v = Undefined THEN "undefined" ELSE v

\* resetForm leaving the update listener bound
resetFormKeepsUpdate ==
    /\ postForm' = EmptyPostForm
    /\ submitText' = "Submit"
    /\ listeners' = listeners \cup {"createPost"}

\* resetForm
resetForm ==
    /\ postForm' = EmptyPostForm
    /\ submitText' = "Submit"
    /\ listeners' = (listeners \ {"updatePost"}) \cup {"createPost"}

\* the user fills in the visible fields of the post form
TypePost(Texts) ==
    /\ AppDocument
    /\ \E t \in Texts, i \in Texts, l \in Texts, x \in Texts :
           postForm' = [postForm EXCEPT !.title = t, !.image = i,
                                        !.location = l, !.text = x]
    /\ out' = Out("input", "call", << >>, NoRequest, NoNav)
    /\ UNCHANGED << storageVars, navVars, authFormVars, submitText, listeners,
                    listVars, detailVars, cursorVars, pending >>

\* editPost leaving the create listener bound
editPostKeepsCreate(postId, title, imageUrl, body, place) ==
    /\ postForm' = [title |-> DomString(title),
                    image |-> OrElse(imageUrl, ""),
                    location |-> OrElse(place, "Unknown"),
                    text |-> OrElse(body, "No content"),
                    postId |-> DomString(postId)]
    /\ submitText' = "Resubmit"
    /\ listeners' = listeners \cup {"updatePost"}

\* the record of a call of editPost, with the post whose members it was given
OutOfEdit(post) ==
    Out("editPost", "call", << >>, NoRequest, NoNav) @@ [posts |-> << post >>]

\* editPost
editPost(postId, title, imageUrl, body, place) ==
    /\ postForm' = [title |-> DomString(title),
                    image |-> OrElse(imageUrl, ""),
                    location |-> OrElse(place, "Unknown"),
                    text |-> OrElse(body, "No content"),
                    postId |-> DomString(postId)]
    /\ submitText' = "Resubmit"
    /\ listeners' = (listeners \ {"createPost"}) \cup {"updatePost"}

\* the caller passes the members of a post it has rendered
EditPost(Posts) ==
    /\ AppDocument
    /\ \E post \in Posts :
           /\ editPost(post.id, post.title, post.mediaUrl, post.body, post.tag1)
           /\ out' = OutOfEdit(post)
    /\ UNCHANGED << storageVars, navVars, authFormVars, listVars, detailVars,
                    cursorVars, pending >>

-----------------------------------------------------------------------------
(* fetchPosts *)

UndefinedPropertyErrorMessage == "Cannot read properties of undefined"

PlainNotJson == [tag |-> "unparsable", message |-> Undefined]
PlainNull == [tag |-> "null", message |-> Undefined]
PlainObject(message) == [tag |-> "object", message |-> message]

\* what may answer a create or update request
WriteResponses ==
    {NetworkError(PlainNotJson)}
    \cup {Response(404, b) : b \in {PlainNotJson, PlainNull}
                                   \cup {PlainObject(m) : m \in {Undefined, "Bad request"}}}
    \cup {Response(200, b) : b \in {PlainNotJson, PlainNull, PlainObject(Undefined)}}

\* what may answer a delete request; its body is never read
DeleteResponses ==
    {NetworkError(PlainNotJson)}
    \cup {Response(st, PlainNotJson) : st \in {204, 200, 404}}

NoPosts == [present |-> FALSE, posts |-> << >>]
NoMeta == [present |-> FALSE, isLastPage |-> FALSE]
ListBody(tag, data, meta) ==
    [tag |-> tag, message |-> Undefined, data |-> data, meta |-> meta]

\* what may answer a list request carrying pages of the posts in Posts
ListResponses(Posts) ==
    {NetworkError(ListBody("unparsable", NoPosts, NoMeta))}
    \cup {Response(404, ListBody("object", NoPosts, NoMeta))}
    \cup {Response(200, ListBody(t, NoPosts, NoMeta)) : t \in {"unparsable", "null"}}
    \cup {Response(200, ListBody("object", d, m)) :
            d \in {NoPosts} \cup [present : {TRUE}, posts : ShortPages(Posts)],
            m \in {NoMeta} \cup [present : {TRUE}, isLastPage : BOOLEAN]}

SingleBody(tag, data) == [tag |-> tag, message |-> Undefined, data |-> data]
NoPost == [present |-> FALSE, post |-> BarePost]

\* what may answer a request for one post out of Posts
SingleResponses(Posts) ==
    {NetworkError(SingleBody("unparsable", NoPost))}
    \cup {Response(404, SingleBody("object", NoPost))}
    \cup {Response(200, SingleBody(t, NoPost)) : t \in {"unparsable", "null"}}
    \cup {Response(200, SingleBody("object", d)) :
            d \in {NoPost} \cup [present : {TRUE}, post : Posts]}

FetchRequest(page) == Request("fetchPosts", "GET", "/social/posts", page)

\* fetchPosts skipping a request that is already outstanding
fetchPostsCallDeduplicated(page, inFlight) ==
    IF ~Truthy(getToken) \/ ~Truthy(getApiKey) \/ BagIn(FetchRequest(page), inFlight)
    THEN inFlight
    ELSE inFlight (+) SetToBag({FetchRequest(page)})

\* fetchPosts up to its request: the requests in flight afterwards, given those before
fetchPostsCall(page, inFlight) ==
    IF ~Truthy(getToken) \/ ~Truthy(getApiKey)
    THEN inFlight
    ELSE inFlight (+) SetToBag({FetchRequest(page)})

\* what fetchPosts sends
fetchPostsSent(page) ==
    IF ~Truthy(getToken) \/ ~Truthy(getApiKey) THEN NoRequest ELSE FetchRequest(page)

\* PostManager.fetchPosts(): fetchPosts with its default page
PostManagerFetchPosts(inFlight) == fetchPostsCall(1, inFlight)
PostManagerFetchPostsSent == fetchPostsSent(1)

FetchPosts(page) ==
    /\ AppDocument
    /\ fetchPostsSent(page) # NoRequest => CanSend
    /\ pending' = fetchPostsCall(page, pending)
    /\ out' = Out("fetchPosts", "call", << >>, fetchPostsSent(page), NoNav)
    /\ UNCHANGED << storageVars, navVars, authFormVars, postFormVars, listVars,
                    detailVars, cursorVars >>

\* the button after a list response: disabled when it was the last page
loadMoreAfter(lastPage) == IF lastPage THEN TRUE ELSE loadMoreDisabled

\* fetchPosts after its request
FetchPostsResponse(page, resp) ==
    /\ AppDocument
    /\ InFlight(FetchRequest(page))
    /\ pending' = Receive(FetchRequest(page))
    /\ IF resp.net = "error"
       THEN /\ out' = OutOf(resp, "fetchPosts",
                          << Alert("Error fetching posts: TypeError: ",
                                   NetworkErrorMessage) >>, NoRequest, NoNav)
            /\ UNCHANGED listVars
       ELSE IF ~IsOk(resp)
       THEN /\ out' = OutOf(resp, "fetchPosts",
                          << Alert("Error fetching posts: ", "[object Response]") >>,
                          NoRequest, NoNav)
            /\ UNCHANGED listVars
       ELSE IF ParseJson(resp).kind = "rejected"
       THEN /\ out' = OutOf(resp, "fetchPosts",
                          << Alert("Error fetching posts: SyntaxError: ",
                                   JsonParseErrorMessage) >>, NoRequest, NoNav)
            /\ UNCHANGED listVars
       ELSE IF resp.body.tag = "null"
       THEN /\ out' = OutOf(resp, "fetchPosts",
                          << Alert("Error fetching posts: TypeError: ",
                                   NullPropertyErrorMessage) >>, NoRequest, NoNav)
            /\ UNCHANGED listVars
       ELSE IF ~resp.body.data.present
       THEN \* displayPosts clears the container on page 1, then posts.forEach throws
            /\ postsContainer' = IF page = 1 THEN << >> ELSE postsContainer
            /\ out' = OutOf(resp, "fetchPosts",
                          << Alert("Error fetching posts: TypeError: ",
                                   UndefinedPropertyErrorMessage) >>, NoRequest, NoNav)
            /\ UNCHANGED loadMoreDisabled
       ELSE /\ Len(displayPosts(resp.body.data.posts, page)) <= MaxCards
            /\ postsContainer' = displayPosts(resp.body.data.posts, page)
            /\ IF ~resp.body.meta.present
               THEN /\ out' = OutOf(resp, "fetchPosts",
                                  << Alert("Error fetching posts: TypeError: ",
                                           UndefinedPropertyErrorMessage) >>,
                                  NoRequest, NoNav)
                    /\ UNCHANGED loadMoreDisabled
               ELSE /\ loadMoreDisabled' = loadMoreAfter(resp.body.meta.isLastPage)
                    /\ out' = OutOfPage(resp, page)
    /\ UNCHANGED << storageVars, navVars, authFormVars, postFormVars, detailVars,
                    cursorVars >>

-----------------------------------------------------------------------------
(* createPost, updatePost, deletePost, fetchSinglePost *)

CreateRequest == Request("createPost", "POST", "/social/posts", 0)
UpdateRequest == Request("updatePost", "PUT", "/social/posts/:id", 0)
DeleteRequest == Request("deletePost", "DELETE", "/social/posts/:id", 0)
SingleRequest == Request("fetchSinglePost", "GET", "/social/posts/:id", 0)

\* the promise chain without its test of response.ok
postWriteOutcomeIgnoresStatus(resp, fallback) ==
    IF resp.net = "error" THEN Rejected(NetworkErrorMessage, resp.body)
    ELSE ParseJson(resp)

\* the promise chain of createPost and updatePost up to its second then: the parsed
\* body, or the error its catch receives
postWriteOutcome(resp, fallback) ==
    IF resp.net = "error" THEN Rejected(NetworkErrorMessage, resp.body)
    ELSE IF ~IsOk(resp)
    THEN IF ParseJson(resp).kind = "rejected" THEN ParseJson(resp)
         ELSE IF resp.body.tag = "null"
         THEN Rejected(NullPropertyErrorMessage, resp.body)
         ELSE Rejected(OrElse(resp.body.message, fallback), resp.body)
    ELSE ParseJson(resp)

\* createPost up to its request
CreatePost ==
    /\ AppDocument
    /\ IF ~Truthy(getToken) \/ ~Truthy(getApiKey)
       THEN /\ out' = Out("createPost", "call",
                          << Alert("You must be logged in to create a post.", "") >>,
                          NoRequest, NoNav)
            /\ UNCHANGED pending
       ELSE /\ CanSend
            /\ pending' = Send(CreateRequest)
            /\ out' = Out("createPost", "call", << >>, CreateRequest, NoNav)
    /\ UNCHANGED << storageVars, navVars, authFormVars, postFormVars, listVars,
                    detailVars, cursorVars >>

\* createPost after its request
CreateResponse(resp) ==
    /\ AppDocument
    /\ InFlight(CreateRequest)
    /\ LET r == postWriteOutcome(resp, "Error creating post.")
       IN  IF r.kind = "resolved"
           THEN /\ resetForm
                /\ pending' = PostManagerFetchPosts(Receive(CreateRequest))
                /\ out' = OutOf(resp, "createPost",
                              << Alert("Post created successfully!", "") >>,
                              PostManagerFetchPostsSent, NoNav)
           ELSE /\ pending' = Receive(CreateRequest)
                /\ out' = OutOf(resp, "createPost",
                              << Alert("Post creation failed: ", r.message) >>,
                              NoRequest, NoNav)
                /\ UNCHANGED postFormVars
    /\ UNCHANGED << storageVars, navVars, authFormVars, listVars, detailVars,
                    cursorVars >>

\* updatePost up to its request
UpdatePost ==
    /\ AppDocument
    /\ IF ~Truthy(getToken) \/ ~Truthy(getApiKey) \/ ~Truthy(postForm.postId)
       THEN /\ out' = Out("updatePost", "call",
                          << Alert("You must be logged in, have an API key, and a valid post to update.", "") >>,
                          NoRequest, NoNav)
            /\ UNCHANGED pending
       ELSE /\ CanSend
            /\ pending' = Send(UpdateRequest)
            /\ out' = Out("updatePost", "call", << >>, UpdateRequest, NoNav)
    /\ UNCHANGED << storageVars, navVars, authFormVars, postFormVars, listVars,
                    detailVars, cursorVars >>

\* updatePost after its request
UpdateResponse(resp) ==
    /\ AppDocument
    /\ InFlight(UpdateRequest)
    /\ LET r == postWriteOutcome(resp, "Error updating post.")
       IN  IF r.kind = "resolved"
           THEN /\ resetForm
                /\ pending' = PostManagerFetchPosts(Receive(UpdateRequest))
                /\ out' = OutOf(resp, "updatePost",
                              << Alert("Post updated successfully!", "") >>,
                              PostManagerFetchPostsSent, NoNav)
           ELSE /\ pending' = Receive(UpdateRequest)
                /\ out' = OutOf(resp, "updatePost",
                              << Alert("Post update failed: ", r.message) >>,
                              NoRequest, NoNav)
                /\ UNCHANGED postFormVars
    /\ UNCHANGED << storageVars, navVars, authFormVars, listVars, detailVars,
                    cursorVars >>

\* a submission of the post form runs the listeners bound to it
SubmitPostForm ==
    \/ "createPost" \in listeners /\ CreatePost
    \/ "updatePost" \in listeners /\ UpdatePost

\* deletePost: its request is sent whatever the storage holds
DeletePost ==
    /\ AppDocument
    /\ CanSend
    /\ pending' = Send(DeleteRequest)
    /\ out' = Out("deletePost", "call", << >>, DeleteRequest, NoNav)
    /\ UNCHANGED << storageVars, navVars, authFormVars, postFormVars, listVars,
                    detailVars, cursorVars >>

\* deletePost after its request
DeleteResponse(resp) ==
    /\ AppDocument
    /\ InFlight(DeleteRequest)
    /\ IF resp.net = "error"
       THEN /\ pending' = Receive(DeleteRequest)
            /\ out' = OutOf(resp, "deletePost",
                          << Alert("Error deleting post: ", NetworkErrorMessage) >>,
                          NoRequest, NoNav)
       ELSE IF resp.status = 204
       THEN /\ pending' = PostManagerFetchPosts(Receive(DeleteRequest))
            /\ out' = OutOf(resp, "deletePost",
                          << Alert("Post deleted successfully!", "") >>,
                          PostManagerFetchPostsSent, NoNav)
       ELSE /\ pending' = Receive(DeleteRequest)
            /\ out' = OutOf(resp, "deletePost",
                          << Alert("Error deleting post: ", "Failed to delete post") >>,
                          NoRequest, NoNav)
    /\ UNCHANGED << storageVars, navVars, authFormVars, postFormVars, listVars,
                    detailVars, cursorVars >>

\* fetchSinglePost up to its request
FetchSinglePost ==
    /\ DetailDocument
    /\ IF ~Truthy(getToken) \/ ~Truthy(getApiKey)
       THEN /\ out' = Out("fetchSinglePost", "call", << >>, NoRequest, NoNav)
            /\ UNCHANGED pending
       ELSE /\ CanSend
            /\ pending' = Send(SingleRequest)
            /\ out' = Out("fetchSinglePost", "call", << >>, SingleRequest, NoNav)
    /\ UNCHANGED << storageVars, navVars, authFormVars, postFormVars, listVars,
                    detailVars, cursorVars >>

\* fetchSinglePost after its request
FetchSingleResponse(resp) ==
    /\ DetailDocument
    /\ InFlight(SingleRequest)
    /\ pending' = Receive(SingleRequest)
    /\ IF resp.net = "error"
       THEN /\ out' = OutOf(resp, "fetchSinglePost",
                          << Alert("Error fetching post details: ", NetworkErrorMessage) >>,
                          NoRequest, NoNav)
            /\ UNCHANGED detailVars
       ELSE IF ~IsOk(resp)
       THEN /\ out' = OutOf(resp, "fetchSinglePost",
                          << Alert("Error fetching post details: ", "undefined") >>,
                          NoRequest, NoNav)
            /\ UNCHANGED detailVars
       ELSE IF ParseJson(resp).kind = "rejected"
       THEN /\ out' = OutOf(resp, "fetchSinglePost",
                          << Alert("Error fetching post details: ", JsonParseErrorMessage) >>,
                          NoRequest, NoNav)
            /\ UNCHANGED detailVars
       ELSE IF resp.body.tag = "null"
       THEN /\ out' = OutOf(resp, "fetchSinglePost",
                          << Alert("Error fetching post details: ", NullPropertyErrorMessage) >>,
                          NoRequest, NoNav)
            /\ UNCHANGED detailVars
       ELSE IF ~resp.body.data.present
       THEN /\ out' = OutOf(resp, "fetchSinglePost",
                          << Alert("Error fetching post details: ",
                                   UndefinedPropertyErrorMessage) >>, NoRequest, NoNav)
            /\ UNCHANGED detailVars
       ELSE /\ displaySinglePost(resp.body.data.post)
            /\ out' = OutOf(resp, "fetchSinglePost", << >>, NoRequest, NoNav)
    /\ UNCHANGED << storageVars, navVars, authFormVars, postFormVars, listVars,
                    cursorVars >>

-----------------------------------------------------------------------------
(* The application *)

ApiKeys == {"key"}
Pages == {"login.html", "index.html", "post.html"}

\* a page has loaded: the storage holds what earlier visits left, the forms are
\* empty, the post form submits to createPost, nothing is rendered or in flight
Init ==
    /\ token \in {None, "t1"}
    /\ apiKey \in {None} \cup ApiKeys
    /\ location \in Pages
    /\ loginForm = EmptyLoginForm
    /\ registerForm = EmptyRegisterForm
    /\ postForm = EmptyPostForm
    /\ submitText = "Submit"
    /\ listeners = {"createPost"}
    /\ postsContainer = << >>
    /\ loadMoreDisabled = FALSE
    /\ postDetails = NoDetail
    /\ docTitle = NoDocTitle
    /\ currentPage = 1
    /\ isLastPage = FALSE
    /\ pending = EmptyBag
    /\ out = Out("none", "call", << >>, NoRequest, NoNav)

OkName == << "a","b" >>
BadName == << "b","a","d"," ","n","a","m","e","!" >>
OkEmail == << "a","@" >> \o Str_noroff_no
BadEmail == << "a","@","x","." >> \o Str_noroff_no
OkPassword == << "p","a","s","s","1","2","3","4" >>
ShortPassword == << "p","a","s","s","1","2","3" >>

Next ==
    \/ TypeLogin({<< " " >>, OkEmail}, {OkPassword})
    \/ LoginUser
    \/ \E resp \in AuthResponses : LoginResponse(resp)
    \/ TypeRegister({OkName, BadName}, {OkEmail}, {OkPassword})
    \/ RegisterUser
    \/ \E resp \in AuthResponses : RegisterResponse(resp)
    \/ HandleLogout
    \/ TypePost({"x"})
    \/ EditPost(PlainPosts)
    \/ SubmitPostForm
    \/ \E resp \in WriteResponses : CreateResponse(resp)
    \/ \E resp \in WriteResponses : UpdateResponse(resp)
    \/ \E page \in PageNumbers : FetchPosts(page)
    \/ \E page \in PageNumbers, resp \in ListResponses(PlainPosts) : FetchPostsResponse(page, resp)
    \/ ClickCard
    \/ DeletePost
    \/ \E resp \in DeleteResponses : DeleteResponse(resp)
    \/ FetchSinglePost
    \/ \E resp \in SingleResponses(PlainPosts) : FetchSingleResponse(resp)

Spec == Init /\ [][Next]_vars

\* registration alone, over every combination of the form inputs
NextRegister ==
    \/ TypeRegister(NameInputs, EmailInputs, PasswordInputs)
    \/ RegisterUser
    \/ \E resp \in AuthResponses : RegisterResponse(resp)

SpecRegister == Init /\ [][NextRegister]_vars

RenderPageNumbers == {1, 2, 3}

\* the two renderers alone, called with full, bare and sparse posts
NextRender ==
    \/ \E posts \in FeedPages(PlainPosts), page \in RenderPageNumbers :
           DisplayPosts(posts, page)
    \/ \E post \in SparsePosts : DisplayPosts(<< post >>, 1)
    \/ \E post \in PlainPosts \cup SparsePosts : DisplaySinglePost(post)

SpecRender == Init /\ [][NextRender]_vars

FeedPageNumbers == {1, 2, 3}

\* the list alone: fetches of the first three pages and their responses
NextFeed ==
    \/ \E page \in FeedPageNumbers : FetchPosts(page)
    \/ \E page \in FeedPageNumbers, resp \in ListResponses(PlainPosts) :
           FetchPostsResponse(page, resp)

SpecFeed == Init /\ [][NextFeed]_vars

-----------------------------------------------------------------------------
(* Properties *)

\* the step just taken is the continuation of op
Answered(op) == out.op = op /\ out.phase = "response"
\* the step just taken is the synchronous part of op
Called(op) == out.op = op /\ out.phase = "call"

\* C1: when the login request comes back with a success status but neither
\* data.accessToken nor accessToken holds a token, loginUser leaves the stored token
\* and the API key as they were and stays on the page it was on.
C1_NoTokenNoLogin ==
    [][ ( /\ out'.op = "loginUser" /\ out'.phase = "response"
          /\ out'.got.net = "ok" /\ out'.got.status \in 200..299
          /\ ~Truthy(out'.got.nested) /\ ~Truthy(out'.got.top) )
        => /\ token' = token
           /\ apiKey' = apiKey
           /\ location' = location
           /\ out'.nav = NoNav ]_vars

\* a login answered 200 with an object holding no token: one alert, nothing stored
C1_Witness ==
    /\ Answered("loginUser")
    /\ out.got.status = 200 /\ out.got.tag = "object"
    /\ out.got.nested = "" /\ out.got.top = Undefined
    /\ out.alerts = << Alert("Login failed: No access token returned.", "") >>
    /\ token = None
    /\ location = "login.html"

\* the trimmed fields of the registration form
TrimmedName == Trim(registerForm.name)
TrimmedEmail == Trim(registerForm.email)
TrimmedPassword == Trim(registerForm.password)

EndsWith(s, suffix) ==
    Len(s) >= Len(suffix) /\ SubSeq(s, Len(s) - Len(suffix) + 1, Len(s)) = suffix

NameHasForeignChar ==
    \E i \in 1..Len(TrimmedName) :
        TrimmedName[i] \notin Lower \cup Upper \cup Digit \cup {"_"}
EmailHasNoroffSuffix ==
    \/ EndsWith(TrimmedEmail, << "@" >> \o Str_noroff_no)
    \/ EndsWith(TrimmedEmail, << "@" >> \o Str_stud_dot \o Str_noroff_no)
PasswordTooShort == Len(TrimmedPassword) < 8
SomeFieldEmpty ==
    TrimmedName = << >> \/ TrimmedEmail = << >> \/ TrimmedPassword = << >>

\* C2: a registerUser call on a form whose trimmed name has a character outside
\* letters, digits and underscore, whose trimmed email lacks both suffixes or whose
\* trimmed password is shorter than 8 sends nothing; when it does send, the request
\* is the one to /auth/register and the non-empty check and all three rules pass.
C2_InvalidRegistrationSendsNothing ==
    [][ (out'.op = "registerUser" /\ out'.phase = "call")
        => /\ (NameHasForeignChar \/ ~EmailHasNoroffSuffix \/ PasswordTooShort)
                => (pending' = pending /\ out'.sent = NoRequest)
           /\ pending' # pending
                => /\ pending' = pending (+) SetToBag({RegisterRequest})
                   /\ out'.sent.url = "/auth/register"
                   /\ ~SomeFieldEmpty /\ ~NameHasForeignChar
                   /\ EmailHasNoroffSuffix /\ ~PasswordTooShort ]_vars

\* a registration with a good name and password and the email "a@noroff.nox" was
\* turned down without a request
C2_Witness ==
    /\ Called("registerUser")
    /\ registerForm.name = << "A","_","1" >>
    /\ registerForm.email = << "a","@" >> \o Str_noroff_no \o << "x" >>
    /\ registerForm.password = << "p","a","s","s","w","o","r","d","9" >>
    /\ out.sent = NoRequest
    /\ out.alerts = << Alert(MsgEmailDomain, "") >>
    /\ pending = EmptyBag

\* C3: right after handleLogout neither the token nor the API key is stored and the
\* page is login.html, whatever was stored or outstanding before.
C3_LogoutClearsAndLeaves ==
    Called("handleLogout")
        => token = None /\ apiKey = None /\ location = "login.html"

\* a logout has just run
C3_Witness ==
    /\ Called("handleLogout")
    /\ token = None /\ apiKey = None
    /\ location = "login.html"
    /\ pending = EmptyBag

\* C4: after a list response whose meta.isLastPage was read, the load-more button is
\* disabled exactly when that value was true.
C4_LoadMoreIffLastPage ==
    (Answered("fetchPosts") /\ out.got.lastPage # "")
        => (loadMoreDisabled <=> out.got.lastPage = "yes")

\* C5: displayPosts(posts, 1) leaves exactly the cards of posts in the container;
\* displayPosts(posts, page) with page > 1 leaves the cards that were there, in their
\* order, followed by the cards of posts.
C5_ReplaceOrAppend ==
    [][ out'.op = "displayPosts"
        => postsContainer' =
             IF out'.page = 1 THEN postCards(out'.posts)
             ELSE postsContainer \o postCards(out'.posts) ]_vars

\* page 3 was appended behind a card already shown
C5_Witness ==
    /\ out.op = "displayPosts" /\ out.page = 3
    /\ out.posts = << FullPost >>
    /\ postsContainer = << postCard(BarePost), postCard(FullPost) >>

\* a submission in Edit mode has ended: it was aborted or its response was handled
UpdateEnded == out.op = "updatePost" /\ (out.phase = "response" \/ out.sent = NoRequest)

\* the response just handled had a success status and a body that parses
GotSuccess == out.got.net = "ok" /\ out.got.status \in 200..299 /\ out.got.tag # "unparsable"

\* C6 as stated: every submission in Edit mode, successful, failed or aborted, ends
\* with createPost bound and updatePost unbound.
C6_EverySubmissionRebinds == UpdateEnded => listeners = {"createPost"}

\* C6: editPost leaves updatePost bound alone, the label Resubmit and the postId of
\* the record; a submission in Edit mode whose update succeeds ends with createPost
\* bound alone, the label Submit and an empty form, and one that fails or is aborted
\* leaves the binding, the label and the fields as they were, an aborted one in Edit
\* mode.
C6_OnlySuccessRebinds ==
    [][ /\ out'.op = "editPost"
             => /\ listeners' = {"updatePost"}
                /\ submitText' = "Resubmit"
                /\ postForm'.postId \in {post.id : post \in PlainPosts}
        /\ UpdateEnded'
             => IF GotSuccess'
                THEN /\ listeners' = {"createPost"}
                     /\ submitText' = "Submit"
                     /\ postForm' = EmptyPostForm
                ELSE /\ listeners' = listeners
                     /\ submitText' = submitText
                     /\ postForm' = postForm
                     /\ out'.phase = "call" => listeners' = {"updatePost"} ]_vars

\* an update answered 404 left the form in Edit mode
C6_Witness ==
    /\ Answered("updatePost")
    /\ out.got.status = 404
    /\ listeners = {"updatePost"}
    /\ submitText = "Resubmit"
    /\ postForm.postId = "1"

\* C7: a response with a non-success status makes registerUser report the message
\* of the body when it has one and "Something went wrong" when it has none.
C7_FailureMessage ==
    (Answered("registerUser") /\ out.got.net = "ok" /\ out.got.status \notin 200..299)
        => out.alerts =
             << Alert("Registration failed: ",
                      IF out.got.tag = "object" /\ Truthy(out.got.message)
                      THEN out.got.message ELSE "Something went wrong") >>

\* C8: with the token or the API key absent, the synchronous part of createPost,
\* updatePost, fetchPosts, fetchSinglePost and deletePost sends no request.
C8_NoCredentialsNoRequest ==
    ( /\ out.phase = "call"
      /\ out.op \in {"createPost", "updatePost", "fetchPosts", "fetchSinglePost",
                     "deletePost"}
      /\ (~Truthy(token) \/ ~Truthy(apiKey)) )
        => out.sent = NoRequest

\* value when it is present and not empty, else the default
ShownFor(value, default) == IF value \in {Undefined, ""} THEN default ELSE value

\* the card or detail view shows each of the four optional members or its default
ShowsWithDefaults(view, post) ==
    /\ view.image = ShownFor(post.mediaUrl, "/assets/default-image.png")
    /\ view.author = ShownFor(post.authorName, "Anonymous")
    /\ view.body = ShownFor(post.body, "No content")
    /\ view.location = ShownFor(post.tag1, "Unknown")

\* C9: the cards displayPosts adds and the view displaySinglePost writes show, for
\* each of media.url, author.name, body and tags[1] on its own, the value of the post
\* when it has one and the default when it is missing or empty.
C9_DefaultsPerField ==
    /\ out.op = "displayPosts"
         => \A i \in 1..Len(out.posts) :
              ShowsWithDefaults(
                  postsContainer[Len(postsContainer) - Len(out.posts) + i],
                  out.posts[i])
    /\ out.op = "displaySinglePost"
         => /\ ShowsWithDefaults(postDetails, out.posts[1])
            /\ docTitle[1] = ShownFor(out.posts[1].authorName, "Anonymous")

\* a card of a post with a body and a place but an empty author and no image
C9_Witness ==
    /\ out.op = "displayPosts"
    /\ out.posts = << Post("3", "Tulips", "Yellow tulips", "", "tulips", "", "Bergen",
                           PostDate, "0") >>
    /\ postsContainer[Len(postsContainer)].author = "Anonymous"
    /\ postsContainer[Len(postsContainer)].image = "/assets/default-image.png"
    /\ postsContainer[Len(postsContainer)].body = "Yellow tulips"
    /\ postsContainer[Len(postsContainer)].location = "Bergen"

Flows == {"loginUser", "registerUser", "createPost", "updatePost"}

\* a run of one of the four flows has ended with the step just taken
FlowEnded == out.op \in Flows /\ (out.phase = "response" \/ out.sent = NoRequest)

\* the run ended for one of the four causes of failure: validation or credentials
\* stopped it before its request, the network failed, or the status was not a success
FailureCause ==
    \/ out.phase = "call" /\ out.sent = NoRequest
    \/ out.phase = "response" /\ (out.got.net = "error" \/ out.got.status \notin 200..299)

\* the step showed one message, sent nothing, navigated nowhere and changed nothing
FailureOutcome ==
    /\ Len(out'.alerts) = 1 /\ out'.sent = NoRequest /\ out'.nav = NoNav
    /\ token' = token /\ apiKey' = apiKey
    /\ loginForm' = loginForm /\ registerForm' = registerForm
    /\ postForm' = postForm /\ listeners' = listeners /\ submitText' = submitText
    /\ postsContainer' = postsContainer
    /\ location' = location

\* the step stored the token and went to the list, went to the login page, or reset
\* the post form and asked for the first page again
SuccessOutcome ==
    \/ /\ out'.op = "loginUser"
       /\ token' \in {out'.got.nested, out'.got.top} /\ token' \in Tokens
       /\ out'.nav = "index.html" /\ location' = "index.html"
    \/ /\ out'.op = "registerUser"
       /\ out'.nav = "login.html" /\ location' = "login.html"
       /\ token' = token
    \/ /\ out'.op \in {"createPost", "updatePost"}
       /\ Len(out'.alerts) = 1 /\ out'.sent = FetchRequest(1)
       /\ postForm' = EmptyPostForm /\ listeners' = {"createPost"}
       /\ submitText' = "Submit"
       /\ token' = token /\ location' = location

\* C10: a run of login, register, create-post or update-post ends as a success or
\* as a failure and never as both; one that ends because of a validation failure, a
\* missing credential, a non-success status or a network error shows one message and
\* leaves the stored credentials, the forms, the mode of the post form, the posts
\* container and the location as they were.
C10_FailureChangesNothing ==
    [][ FlowEnded'
        => /\ FailureCause' => FailureOutcome
           /\ FailureOutcome \/ SuccessOutcome
           /\ ~(FailureOutcome /\ SuccessOutcome) ]_vars

\* a create-post whose request met a network error: one message, the typed fields kept
C10_Witness ==
    /\ Answered("createPost")
    /\ out.got.net = "error"
    /\ out.alerts = << Alert("Post creation failed: ", NetworkErrorMessage) >>
    /\ postForm.title = "x"
    /\ listeners = {"createPost"}
    /\ token = "t1"

\* the step just taken rendered a list response and read its meta.isLastPage
PageRendered == Answered("fetchPosts") /\ out.got.lastPage # ""

\* C11: a call of fetchPosts adds at most one request to those outstanding and never
\* drops or merges one, also when the same page is already asked for; a response for
\* a page after the first is rendered when it arrives, its cards appended behind
\* whatever the container holds then, and the other requests stay outstanding.
C11_OverlappingFetchesAllRender ==
    [][ /\ (out'.op = "fetchPosts" /\ out'.phase = "call")
             => \/ out'.sent = NoRequest /\ pending' = pending
                \/ /\ out'.sent.op = "fetchPosts"
                   /\ pending' = pending (+) SetToBag({out'.sent})
        /\ (PageRendered' /\ out'.got.page > 1)
             => /\ postsContainer' = postsContainer \o postCards(out'.got.posts)
                /\ pending' = pending (-) SetToBag({FetchRequest(out'.got.page)}) ]_vars

\* page 3 was appended behind a card while the request for page 2, sent at least as
\* early, is still outstanding: its cards will come after those of page 3
C11_Witness ==
    /\ PageRendered
    /\ out.got.page = 3
    /\ out.got.posts = << BarePost >>
    /\ postsContainer = << postCard(FullPost), postCard(BarePost) >>
    /\ InFlight(FetchRequest(2))

\* the step just taken handled a login response with a success status whose body is
\* an object carrying a non-empty token in at least one of the two positions
LoginSucceeded ==
    /\ Answered("loginUser")
    /\ out.got.net = "ok" /\ out.got.status \in 200..299 /\ out.got.tag = "object"
    /\ (Truthy(out.got.nested) \/ Truthy(out.got.top))

\* C12: the stored token changes only in a successful login, to a non-empty token
\* the response carried, and in a logout, to absent; a successful login leaves such
\* a token stored and a logout leaves none; registerUser, createPost, updatePost,
\* deletePost, fetchPosts and fetchSinglePost leave the token as it was.
C12_TokenLifecycle ==
    [][ /\ token' # token
             => \/ LoginSucceeded'
                \/ out'.op = "handleLogout"
        /\ LoginSucceeded'
             => /\ token' \in {out'.got.nested, out'.got.top}
                /\ Truthy(token')
                /\ token' # None
        /\ out'.op = "handleLogout" => token' = None
        /\ out'.op \in {"registerUser", "createPost", "updatePost", "deletePost",
                        "fetchPosts", "fetchSinglePost"}
             => token' = token ]_vars

\* a login from empty storage stored the top-level token it was given
C12_Witness ==
    /\ LoginSucceeded
    /\ out.got.nested = Undefined /\ out.got.top = "t2"
    /\ token = "t2"
    /\ apiKey = None
    /\ location = "index.html"

\* the message of the first rule the form breaks, in the order non-empty fields,
\* name charset, email domain, password length
FirstFailingRule ==
    IF SomeFieldEmpty THEN "All required fields must be filled in."
    ELSE IF NameHasForeignChar
    THEN "The name must only contain letters, numbers, and underscores."
    ELSE IF ~EmailHasNoroffSuffix THEN "Please use a valid Noroff email address."
    ELSE IF PasswordTooShort THEN "Password must be at least 8 characters long."
    ELSE "none"

\* C13: a registerUser call that sends nothing shows exactly one message, that of
\* the first rule the trimmed fields break in the order non-empty, name charset,
\* email domain, password length, and leaves the requests outstanding and the values
\* in the form as they were.
C13_FirstFailingRuleOnly ==
    [][ (out'.op = "registerUser" /\ out'.phase = "call" /\ out'.sent = NoRequest)
        => /\ FirstFailingRule # "none"
           /\ out'.alerts = << Alert(FirstFailingRule, "") >>
           /\ pending' = pending
           /\ registerForm' = registerForm ]_vars

\* "bad name!" with a bad email and a short password: only the charset message
C13_Witness ==
    /\ Called("registerUser")
    /\ registerForm.name = << "b","a","d"," ","n","a","m","e","!" >>
    /\ registerForm.email = << "a" >> \o Str_noroff_no
    /\ registerForm.password = << "p","a","s","s","1","2","3" >>
    /\ out.alerts = << Alert("The name must only contain letters, numbers, and underscores.", "") >>
    /\ out.sent = NoRequest

\* the token a login response offers: the one under data when that is not empty,
\* else the one at the top level
ReturnedToken == IF out.got.nested \in {Undefined, ""} THEN out.got.top ELSE out.got.nested

FormModeOK ==
    /\ listeners \in {{"createPost"}, {"updatePost"}}
    /\ "createPost" \in listeners => postForm.postId = "" /\ submitText = "Submit"
    /\ "updatePost" \in listeners => submitText = "Resubmit"

\* C15: from Create mode on, the form always has exactly one of createPost and
\* updatePost bound; with createPost bound the postId is empty and the button reads
\* Submit; with updatePost bound the button reads Resubmit and the postId is the id
\* last given to editPost: editPost sets it, only editPost enters Edit mode, and no
\* other step changes it while updatePost stays bound.
C15_OneHandlerAndMarkersAgree ==
    /\ FormModeOK
    /\ [][ /\ FormModeOK'
           /\ out'.op = "editPost"
                => /\ "updatePost" \in listeners'
                   /\ postForm'.postId = out'.posts[1].id
           /\ ("updatePost" \in listeners' /\ out'.op # "editPost")
                => /\ "updatePost" \in listeners
                   /\ postForm'.postId = postForm.postId ]_vars

\* the form in Edit mode for post 2 after a failed update of it
C15_Witness ==
    /\ Answered("updatePost")
    /\ out.got.net = "error"
    /\ listeners = {"updatePost"}
    /\ postForm.postId = "2"
    /\ submitText = "Resubmit"

====
